---- MODULE Spec2Model ----
(***************************************************************************)
(* Model of magic.py, the project-management command line utility:         *)
(* version / version bump / check / release / test / generate-badges /     *)
(* login.  One behaviour of the model is one invocation of one command.    *)
(*                                                                         *)
(* Text is a sequence of one-character strings; a few opaque multi-        *)
(* character tokens stand for fixed message fragments and for typed        *)
(* values whose characters no code path inspects.                          *)
(***************************************************************************)
EXTENDS Integers, Sequences, FiniteSets, TLC

VARIABLES
    cmd,               \* the command typer dispatches to
    part,              \* VersionPart argument of `version bump` / `release`
    skip_tests,        \* --skip-tests option of `release`
    use_default,       \* --default option of `login`
    pc,                \* position inside the command
    exit,              \* process exit status, Running while the command runs
    exc,               \* the exception (or typer.Exit cause) that ended the command
    disk,              \* pyproject.toml on disk: [exists, doc]
    pyproject,         \* bump's local `pyproject` dict (in memory)
    version,           \* bump's local `version` (the string read from the file)
    git_branch,        \* what `git rev-parse --abbrev-ref HEAD` prints
    git_status,        \* what `git status --porcelain` prints
    calls,             \* external processes invoked so far, [argv, rc]
    steps,             \* functions / release steps entered so far
    stdout,            \* lines printed to standard output
    stderr,            \* lines printed to standard error
    version_badge,     \* right-hand text of reports/version-badge.svg, <<>> if unwritten
    system,            \* platform.system()
    shell,             \* os.environ.get("SHELL", "")
    home,              \* files under Path.home(): name -> sequence of written chunks
    package_index,     \* login: index name as typed / defaulted
    normalized_index,  \* login: normalized index name
    username,          \* login: typed user name
    password           \* login: typed password

vars == <<cmd, part, skip_tests, use_default, pc, exit, exc, disk, pyproject,
          version, git_branch, git_status, calls, steps, stdout, stderr,
          version_badge, system, shell, home, package_index, normalized_index,
          username, password>>

-----------------------------------------------------------------------------
(* Bounds of the model *)

\* version components 0..MaxComp are enumerated for the file's version string
MaxComp == 2
\* index names typed at the prompt: every string over NameAlphabet up to this length
MaxNameLen == 2

Running == -1

-----------------------------------------------------------------------------
(* Text helpers (Python str semantics) *)

Digits == <<"0", "1", "2", "3", "4", "5", "6", "7", "8", "9">>
LowerLetters == <<"a", "b", "c", "d", "e", "f", "g", "h", "i", "j", "k", "l", "m",
                  "n", "o", "p", "q", "r", "s", "t", "u", "v", "w", "x", "y", "z">>
UpperLetters == <<"A", "B", "C", "D", "E", "F", "G", "H", "I", "J", "K", "L", "M",
                  "N", "O", "P", "Q", "R", "S", "T", "U", "V", "W", "X", "Y", "Z">>

Range(s) == {s[i] : i \in 1..Len(s)}
IndexIn(s, c) == CHOOSE i \in 1..Len(s) : s[i] = c

IsDigit(c) == c \in Range(Digits)
IsLower(c) == c \in Range(LowerLetters)
IsUpper(c) == c \in Range(UpperLetters)
IsSpace(c) == c \in {" ", "\n", "\t"}
DigitVal(c) == IndexIn(Digits, c) - 1

RECURSIVE Concat(_)
\* "".join(parts)
Concat(ss) == IF ss = <<>> THEN <<>> ELSE Head(ss) \o Concat(Tail(ss))

\* str.upper() of one character: "ß" upper-cases to the two characters "SS"
UpperChar(c) ==
    IF IsLower(c) THEN <<UpperLetters[IndexIn(LowerLetters, c)]>>
    ELSE IF c = "ß" THEN <<"S", "S">>
    ELSE <<c>>

\* str.lower() of one character
LowerChar(c) ==
    IF IsUpper(c) THEN <<LowerLetters[IndexIn(UpperLetters, c)]>> ELSE <<c>>

ToUpper(s) == Concat([i \in 1..Len(s) |-> UpperChar(s[i])])
ToLower(s) == Concat([i \in 1..Len(s) |-> LowerChar(s[i])])

RECURSIVE LStrip(_)
LStrip(s) == IF s # <<>> /\ IsSpace(Head(s)) THEN LStrip(Tail(s)) ELSE s
RECURSIVE RStrip(_)
RStrip(s) == IF s # <<>> /\ IsSpace(s[Len(s)]) THEN RStrip(SubSeq(s, 1, Len(s) - 1)) ELSE s
\* str.strip()
Strip(s) == RStrip(LStrip(s))

\* `sub in s`
Contains(s, sub) ==
    \E i \in 1..(Len(s) - Len(sub) + 1) : SubSeq(s, i, i + Len(sub) - 1) = sub

RECURSIVE Split(_, _)
\* s.split(sep) for a one-character separator; "".split(".") is [""]
Split(s, sep) ==
    IF \A i \in 1..Len(s) : s[i] # sep THEN <<s>>
    ELSE LET k == CHOOSE i \in 1..Len(s) :
                      s[i] = sep /\ \A j \in 1..(i - 1) : s[j] # sep
         IN <<SubSeq(s, 1, k - 1)>> \o Split(SubSeq(s, k + 1, Len(s)), sep)

RECURSIVE DigitsValue(_)
\* value of a digit string with the underscores int() allows removed
DigitsValue(s) ==
    IF s = <<>> THEN 0
    ELSE IF s[Len(s)] = "_" THEN DigitsValue(SubSeq(s, 1, Len(s) - 1))
    ELSE 10 * DigitsValue(SubSeq(s, 1, Len(s) - 1)) + DigitVal(s[Len(s)])

\* the digits of an int literal: digits with single underscores between them
IsIntBody(b) ==
    /\ b # <<>>
    /\ \A i \in 1..Len(b) : IsDigit(b[i]) \/ b[i] = "_"
    /\ IsDigit(b[1]) /\ IsDigit(b[Len(b)])
    /\ \A i \in 1..(Len(b) - 1) : ~(b[i] = "_" /\ b[i + 1] = "_")
IsSigned(t) == t # <<>> /\ Head(t) \in {"+", "-"}
Unsigned(t) == IF IsSigned(t) THEN Tail(t) ELSE t
ParseStripped(t) ==
    IF ~IsIntBody(Unsigned(t)) THEN [ok |-> FALSE, val |-> 0]
    ELSE [ok |-> TRUE,
          val |-> IF Head(t) = "-" THEN 0 - DigitsValue(Unsigned(t))
                  ELSE DigitsValue(Unsigned(t))]
\* int(s): surrounding whitespace, an optional sign, then the digits;
\* anything else is a ValueError
ParseInt(s) == ParseStripped(Strip(s))

RECURSIVE NatToStr(_)
NatToStr(n) == IF n < 10 THEN <<Digits[n + 1]>>
               ELSE NatToStr(n \div 10) \o <<Digits[(n % 10) + 1]>>
\* f"{n}" of an int
IntToStr(n) == IF n < 0 THEN <<"-">> \o NatToStr(0 - n) ELSE NatToStr(n)

\* f"{major}.{minor}.{patch}"
FormatVersion(major, minor, patch) ==
    IntToStr(major) \o <<".">> \o IntToStr(minor) \o <<".">> \o IntToStr(patch)

-----------------------------------------------------------------------------
(* The configuration document: a set of <<key path, value>> pairs, the     *)
(* data toml.load returns and toml.dump writes.                            *)

VersionKey == "project.version"
Has(doc, k) == \E p \in doc : p[1] = k
Get(doc, k) == (CHOOSE p \in doc : p[1] = k)[2]
Put(doc, k, v) == {p \in doc : p[1] # k} \cup {<<k, v>>}
\* every key of the document but the version field, with its value
OtherKeys(doc) == {p \in doc : p[1] # VersionKey}

\* get_version(): open + toml.load + pyproject["project"]["version"]
get_version(d) ==
    IF ~d.exists THEN [exc |-> "FileNotFoundError", val |-> <<>>]
    ELSE IF ~Has(d.doc, VersionKey) THEN [exc |-> "KeyError", val |-> <<>>]
    ELSE [exc |-> "none", val |-> Get(d.doc, VersionKey)]

ParseFields(f) ==
    IF Len(f) # 3 \/ \E i \in 1..Len(f) : ~ParseInt(f[i]).ok
    THEN [ok |-> FALSE, major |-> 0, minor |-> 0, patch |-> 0]
    ELSE [ok |-> TRUE, major |-> ParseInt(f[1]).val, minor |-> ParseInt(f[2]).val,
          patch |-> ParseInt(f[3]).val]
\* major, minor, patch = map(int, version.split(".")): a ValueError unless
\* there are exactly three fields and each is an int
ParseVersion(v) == ParseFields(Split(v, "."))

\* a bump that forgets the cascading reset of the lower fields
BumpPartsNoReset(major, minor, patch, p) ==
    IF p = "major" THEN <<major + 1, minor, patch>>
    ELSE IF p = "minor" THEN <<major, minor + 1, patch>>
    ELSE <<major, minor, patch + 1>>

\* the if / elif chain on VersionPart
BumpParts(major, minor, patch, p) ==
    IF p = "major" THEN <<major + 1, 0, 0>>
    ELSE IF p = "minor" THEN <<major, minor + 1, 0>>
    ELSE IF p = "patch" THEN <<major, minor, patch + 1>>
    ELSE <<major, minor, patch>>

\* the mode bump opens pyproject.toml with before toml.dump
WriteMode == "r"

\* a dump that writes the project table only
DumpProjectOnly(d, doc, mode) ==
    [exc |-> "none",
     disk |-> [exists |-> TRUE, doc |-> {p \in doc : p[1] \in {VersionKey, "project.name"}}]]

\* with open("pyproject.toml", mode) as f: toml.dump(doc, f)
\* a handle opened for reading refuses f.write: io.UnsupportedOperation
DumpToFile(d, doc, mode) ==
    IF mode = "r"
    THEN IF d.exists THEN [exc |-> "UnsupportedOperation", disk |-> d]
         ELSE [exc |-> "FileNotFoundError", disk |-> d]
    ELSE [exc |-> "none", disk |-> [exists |-> TRUE, doc |-> doc]]

\* the end-of-file-fixer invocation that follows the rewrite
FixerArgv == <<"uv", "run", "pre-commit", "run", "end-of-file-fixer", "--files",
               "pyproject.toml">>

Traceback(e) == <<"Traceback (most recent call last):", e>>
\* a handler that echoes the exception without the Error: prefix
ErrorLineBare(argv) == <<"Command ">> \o argv \o <<" returned non-zero exit status 1.">>

\* typer.echo(f"Error: {e}", err=True) for a CalledProcessError
ErrorLine(argv) == <<"Error: ", "Command ">> \o argv \o <<" returned non-zero exit status 1.">>

\* what one call of bump leaves behind: the exception it ends with, the file,
\* its locals, the processes it ran and the lines it printed
BumpResult(e, d, doc, old, ran, out) ==
    [exc |-> e, disk |-> d, pyproject |-> doc, version |-> old, calls |-> ran, out |-> out]

\* bump after the rewrite: the fixer (its failure only echoed) and the print
BumpFinish(w, doc, old, new, fixer_rc) ==
    IF w.exc # "none" THEN BumpResult(w.exc, w.disk, doc, old, <<>>, <<>>)
    ELSE BumpResult("none", w.disk, doc, old,
                    <<[argv |-> FixerArgv, rc |-> fixer_rc]>>,
                    (IF fixer_rc # 0 THEN <<<<"pre-commit fixed pyproject.toml">>>>
                     ELSE <<>>)
                    \o <<<<"Version bumped to ">> \o new>>)

\* pyproject["project"]["version"] = new, then the rewrite of the file
BumpRewrite(d, doc, old, new, fixer_rc) ==
    BumpFinish(DumpToFile(d, doc, WriteMode), doc, old, new, fixer_rc)

\* the increment and f"{major}.{minor}.{patch}"
BumpFormat(d, loaded, old, nb, fixer_rc) ==
    BumpRewrite(d, Put(loaded, VersionKey, FormatVersion(nb[1], nb[2], nb[3])), old,
                FormatVersion(nb[1], nb[2], nb[3]), fixer_rc)

BumpParsed(d, loaded, old, pv, p, fixer_rc) ==
    IF ~pv.ok THEN BumpResult("ValueError", d, loaded, old, <<>>, <<>>)
    ELSE BumpFormat(d, loaded, old, BumpParts(pv.major, pv.minor, pv.patch, p), fixer_rc)

BumpLoaded(d, loaded, gv, p, fixer_rc) ==
    IF gv.exc # "none" THEN BumpResult(gv.exc, d, loaded, gv.val, <<>>, <<>>)
    ELSE BumpParsed(d, loaded, gv.val, ParseVersion(gv.val), p, fixer_rc)

\* bump(part); fixer_rc is the exit status the end-of-file fixer would give
bump(d, p, fixer_rc) ==
    BumpLoaded(d, IF d.exists THEN d.doc ELSE {}, get_version(d), p, fixer_rc)

\* generate_version_badge(): Badge(right_txt=f"v{version}").write_to(...)
generate_version_badge(d) ==
    [exc |-> get_version(d).exc,
     badge |-> IF get_version(d).exc = "none" THEN <<"v">> \o get_version(d).val ELSE <<>>]

\* the six processes of release_command's try block, in order
TailArgv(new) ==
    << <<"uv", "lock">>,
       <<"uv", "build">>,
       <<"git", "add", ".">>,
       <<"git", "commit", "-m", "Release version ">> \o new,
       <<"git", "tag">> \o new,
       <<"git", "push", "origin", "main", "--tags">> >>
TailSteps == <<"uv lock", "uv build", "git add", "git commit", "git tag", "git push">>

\* the try block of release_command: k of its processes exit zero, n are run
ReleaseTry(new, badge, argv, k, n) ==
    [exc |-> IF k < Len(argv) THEN "CalledProcessError" ELSE "none",
     exit |-> IF k < Len(argv) THEN 1 ELSE 0,
     badge |-> badge,
     calls |-> [i \in 1..n |-> [argv |-> argv[i], rc |-> IF i <= k THEN 0 ELSE 1]],
     steps |-> <<"generate_version_badge">> \o SubSeq(TailSteps, 1, n),
     out |-> << <<"Releasing version ">> \o new \o <<" → ">> \o new,
                <<"Building version: ">> \o new >>
             \o (IF k < Len(argv) THEN <<>>
                 ELSE <<<<"Successfully released version ">> \o new>>),
     err |-> IF k < Len(argv) THEN <<ErrorLine(argv[k + 1])>> ELSE <<>>]

ReleaseBadged(vb, gv, k) ==
    IF vb.exc # "none"
    THEN [exc |-> vb.exc, exit |-> 1, badge |-> <<>>, calls |-> <<>>,
          steps |-> <<"generate_version_badge">>, out |-> <<>>,
          err |-> <<Traceback(vb.exc)>>]
    ELSE ReleaseTry(gv.val, vb.badge, TailArgv(gv.val), k,
                    IF k < Len(TailSteps) THEN k + 1 ELSE Len(TailSteps))

\* release_command after bump(part) returned: the version badge, then the try
\* block; k is the number of its processes that exit zero
ReleaseTail(d, k) == ReleaseBadged(generate_version_badge(d), get_version(d), k)

-----------------------------------------------------------------------------
(* check_command *)

Main == <<"m", "a", "i", "n">>

\* a branch test against the wrong primary branch name
OnPrimaryBranchMaster(out) == Strip(out) = <<"m", "a", "s", "t", "e", "r">>

\* current_branch = check_output(...).strip(); current_branch != "main"
OnPrimaryBranch(out) == Strip(out) = Main

\* uncommitted_files = check_output(...).strip(); `if uncommitted_files`
HasUncommitted(out) == Strip(out) # <<>>

InstallArgv == <<"uv", "run", "pre-commit", "install">>
BranchArgv == <<"git", "rev-parse", "--abbrev-ref", "HEAD">>
StatusArgv == <<"git", "status", "--porcelain">>
WrongBranchLine(out) ==
    <<"Error: ", "You must be on the main branch to release. Current branch: ">> \o Strip(out)
DirtyLine ==
    <<"Error: ", "There are uncommitted changes. Please commit all changes before continuing.">>

-----------------------------------------------------------------------------
(* login_command *)

IsAlnum(c) == IsLower(c) \/ IsUpper(c) \/ IsDigit(c)
\* re.sub(r"[^a-zA-Z0-9]", "_", s)
SubNonAlnum(s) == [i \in 1..Len(s) |-> IF IsAlnum(s[i]) THEN s[i] ELSE "_"]

\* a normalization that forgets .upper()
NormalizeNoUpper(s) == SubNonAlnum(s)

\* normalized_index = re.sub(r"[^a-zA-Z0-9]", "_", package_index.upper())
Normalize(s) == SubNonAlnum(ToUpper(s))

Pypi == <<"p", "y", "p", "i">>
Default == <<"d", "e", "f", "a", "u", "l", "t">>

\* a default test that compares the typed name as it is
SetDefaultVarsCaseSensitive(flag, index) == flag \/ index \in {Pypi, Default}

\* set_default_vars = use_default or package_index.lower() in ("pypi", "default")
SetDefaultVars(flag, index) == flag \/ ToLower(index) \in {Pypi, Default}

UsernameVar(norm) == <<"UV_INDEX_">> \o norm \o <<"_USERNAME">>
PasswordVar(norm) == <<"UV_INDEX_">> \o norm \o <<"_PASSWORD">>
PublishUsernameVar == <<"UV_PUBLISH_USERNAME">>
PublishPasswordVar == <<"UV_PUBLISH_PASSWORD">>

\* the setx invocations of the Windows branch, in order
SetxArgv(norm, user, pw, dflt) ==
    << <<"setx">> \o UsernameVar(norm) \o user,
       <<"setx">> \o PasswordVar(norm) \o pw >>
    \o (IF dflt THEN << <<"setx">> \o PublishUsernameVar \o user,
                        <<"setx">> \o PublishPasswordVar \o pw >>
        ELSE <<>>)

\* f"export {var}='{value}'\n"
ExportLine(var, value) == <<"export ">> \o var \o <<"='">> \o value \o <<"'", "\n">>

\* the chunks the `with open(config_file, "a")` block writes, in order
LoginChunks(index, norm, user, pw, dflt) ==
    << <<"\n", "# UV publishing credentials for ">> \o index \o <<"\n">>,
       ExportLine(UsernameVar(norm), user),
       ExportLine(PasswordVar(norm), pw) >>
    \o (IF dflt THEN << <<"\n", "# Default UV publishing credentials", "\n">>,
                        ExportLine(PublishUsernameVar, user),
                        ExportLine(PublishPasswordVar, pw) >>
        ELSE <<>>)

\* the startup file: .zshrc when SHELL mentions zsh, else .bashrc; .profile
\* when that file does not exist
ConfigFile(sh, files) ==
    LET first == IF Contains(sh, <<"z", "s", "h">>) THEN ".zshrc" ELSE ".bashrc"
    IN IF Has(files, first) THEN first ELSE ".profile"

\* config_file.with_suffix(config_file.suffix + ".bak")
BackupFile(name) ==
    IF name = ".zshrc" THEN ".zshrc.bak"
    ELSE IF name = ".bashrc" THEN ".bashrc.bak" ELSE ".profile.bak"

\* file contents after appending chunks (open(..., "a") creates a missing file)
AppendTo(files, name, chunks) ==
    Put(files, name, (IF Has(files, name) THEN Get(files, name) ELSE <<>>) \o chunks)

-----------------------------------------------------------------------------
(* Inputs: command lines, the files and the environment a run starts with *)

Commands == {"version", "version bump", "check", "release", "test",
             "generate-badges", "login"}
Parts == {"patch", "minor", "major"}

\* version strings beyond the enumerated a.b.c: carries, leading zeros, a
\* sign, and strings that are no version
ExtraVersions ==
    { <<"1", ".", "2", ".", "3">>,
      <<"0", ".", "9", ".", "9">>,
      <<"9", ".", "9", "9", ".", "1", "0">>,
      <<"0", "1", ".", "2", ".", "0", "3">>,
      <<"-", "1", ".", "2", ".", "3">>,
      <<"1", ".", "2">>,
      <<"1", ".", "2", ".", "3", ".", "4">>,
      <<"1", ".", "x", ".", "3">>,
      <<"1", ".", ".", "3">>,
      <<>> }
VersionInputs ==
    {FormatVersion(a, b, c) : a \in 0..MaxComp, b \in 0..MaxComp, c \in 0..MaxComp}
    \cup ExtraVersions

\* the other keys a pyproject.toml holds
BaseDocs ==
    { { <<"project.name", <<"p", "k", "g">>>> },
      { <<"project.name", <<"p", "k", "g">>>>,
        <<"project.description", <<"0", ".", "0", ".", "1">>>>,
        <<"tool.ruff.line-length", <<"1", "0", "0">>>> } }
Docs == BaseDocs \cup {Put(b, VersionKey, v) : b \in BaseDocs, v \in VersionInputs}
Disks == {[exists |-> FALSE, doc |-> {}]} \cup {[exists |-> TRUE, doc |-> d] : d \in Docs}
DefaultDisk ==
    [exists |-> TRUE,
     doc |-> { <<"project.name", <<"p", "k", "g">>>>,
               <<VersionKey, <<"1", ".", "2", ".", "3">>>> }]

GitBranchOutputs ==
    { Main \o <<"\n">>,
      <<"f", "e", "a", "t", "u", "r", "e", "-", "x", "\n">>,
      <<"m", "a", "s", "t", "e", "r", "\n">>,
      <<"H", "E", "A", "D", "\n">> }
GitStatusOutputs ==
    { <<>>,
      <<" ", "M", " ", "magic.py", "\n">>,
      <<"?", "?", " ", "notes.txt", "\n">> }

Systems == {"Windows", "Linux"}
Shells == { <<>>, <<"/", "b", "i", "n", "/", "z", "s", "h">>,
            <<"/", "b", "i", "n", "/", "b", "a", "s", "h">> }
StartupFiles == {".zshrc", ".bashrc", ".profile"}
Homes == {{<<n, <<<<"# ", n, "\n">>>>>> : n \in S} : S \in SUBSET StartupFiles}

NameAlphabet == {"a", "Z", "7", "_", "-", "ß"}
RECURSIVE StringsUpTo(_)
StringsUpTo(n) ==
    IF n = 0 THEN {<<>>}
    ELSE LET shorter == StringsUpTo(n - 1)
         IN shorter \cup {Append(t, c) : t \in shorter, c \in NameAlphabet}
ExtraNames ==
    { Pypi, Default,
      <<"P", "y", "P", "I">>,
      <<"D", "E", "F", "A", "U", "L", "T">>,
      <<"m", "y", " ", "c", "o", "m", "p", "a", "n", "y", "!">>,
      <<"M", "Y", "_", "C", "O", "M", "P", "A", "N", "Y", "_">>,
      <<"c", "o", "m", "p", "a", "n", "y", "-", "p", "r", "i", "v", "a", "t", "e">>,
      <<"p", "y", "p", "i", " ">> }
\* typer.prompt asks again on an empty answer, so a typed name is never empty
IndexNames == (StringsUpTo(MaxNameLen) \ {<<>>}) \cup ExtraNames
Usernames == { <<"alice">>, <<"b", "o", "b">> }
Passwords == { <<"secret">>, <<"p", "4", "'", "s">> }

StartPc(c) ==
    IF c = "version" THEN "version"
    ELSE IF c = "version bump" THEN "bump"
    ELSE IF c \in {"check", "release"} THEN "check_install"
    ELSE IF c = "test" THEN "run_tests"
    ELSE IF c = "generate-badges" THEN "coverage_html"
    ELSE "login_index"

Init ==
    /\ cmd \in Commands
    /\ part \in (IF cmd \in {"version bump", "release"} THEN Parts ELSE {"patch"})
    /\ skip_tests \in (IF cmd = "release" THEN BOOLEAN ELSE {FALSE})
    /\ use_default \in (IF cmd = "login" THEN BOOLEAN ELSE {FALSE})
    /\ pc = StartPc(cmd)
    /\ exit = Running
    /\ exc = "none"
    /\ disk \in (IF cmd \in {"version", "version bump", "release", "generate-badges"}
                 THEN Disks ELSE {DefaultDisk})
    /\ pyproject = {}
    /\ version = <<>>
    /\ git_branch \in (IF cmd \in {"check", "release"} THEN GitBranchOutputs
                       ELSE {Main \o <<"\n">>})
    /\ git_status \in (IF cmd \in {"check", "release"} THEN GitStatusOutputs ELSE {<<>>})
    /\ calls = <<>>
    /\ steps = <<>>
    /\ stdout = <<>>
    /\ stderr = <<>>
    /\ version_badge = <<>>
    /\ system \in (IF cmd = "login" THEN Systems ELSE {"Linux"})
    /\ shell \in (IF cmd = "login" THEN Shells ELSE {<<>>})
    /\ home \in (IF cmd = "login" THEN Homes ELSE {{}})
    /\ package_index = <<>>
    /\ normalized_index = <<>>
    /\ username = <<>>
    /\ password = <<>>

-----------------------------------------------------------------------------
(* Ways a command ends *)

\* an exception no handler catches: the interpreter prints the traceback and
\* exits with status 1
Uncaught(e) ==
    /\ exc' = e
    /\ exit' = 1
    /\ stderr' = Append(stderr, Traceback(e))
    /\ pc' = "done"

\* except subprocess.CalledProcessError as e: echo Error, raise typer.Exit(code=1)
ProcessFailed(argv) ==
    /\ exc' = "CalledProcessError"
    /\ exit' = 1
    /\ stderr' = Append(stderr, ErrorLine(argv))
    /\ pc' = "done"

Succeeded ==
    /\ exc' = "none"
    /\ exit' = 0
    /\ pc' = "done"

-----------------------------------------------------------------------------
(* Actions *)

args == <<cmd, part, skip_tests, use_default>>
env == <<git_branch, git_status, system, shell>>
bumpLocals == <<pyproject, version>>
loginLocals == <<package_index, normalized_index, username, password>>

\* `version` without a subcommand: print(get_version())
VersionCallback ==
    /\ cmd = "version" /\ pc = "version" /\ exit = Running
    /\ steps' = Append(steps, "version_callback")
    /\ \E gv \in {get_version(disk)} :
          IF gv.exc # "none"
          THEN Uncaught(gv.exc) /\ UNCHANGED stdout
          ELSE Succeeded /\ stdout' = Append(stdout, gv.val) /\ UNCHANGED stderr
    /\ UNCHANGED <<args, env, bumpLocals, loginLocals, disk, calls, version_badge, home>>

\* `version bump [part]`: bump(part)
BumpCommand ==
    /\ cmd = "version bump" /\ pc = "bump" /\ exit = Running
    /\ steps' = Append(steps, "bump")
    /\ \E fixer_rc \in {0, 1} :
         \E r \in {bump(disk, part, fixer_rc)} :
            /\ disk' = r.disk
            /\ pyproject' = r.pyproject
            /\ version' = r.version
            /\ calls' = calls \o r.calls
            /\ stdout' = stdout \o r.out
            /\ IF r.exc # "none" THEN Uncaught(r.exc)
               ELSE Succeeded /\ UNCHANGED stderr
    /\ UNCHANGED <<args, env, loginLocals, version_badge, home>>

\* check_command: subprocess.check_call(["uv", "run", "pre-commit", "install"])
CheckInstall ==
    /\ cmd \in {"check", "release"} /\ pc = "check_install" /\ exit = Running
    /\ steps' = Append(steps, "check_command")
    /\ \E rc \in {0, 1} :
         /\ calls' = Append(calls, [argv |-> InstallArgv, rc |-> rc])
         /\ IF rc # 0 THEN ProcessFailed(InstallArgv)
            ELSE pc' = "check_branch" /\ UNCHANGED <<exit, exc, stderr>>
    /\ UNCHANGED <<args, env, bumpLocals, loginLocals, disk, stdout, version_badge, home>>

\* check_command: the branch query and the test against "main"
CheckBranch ==
    /\ pc = "check_branch" /\ exit = Running
    /\ \E rc \in {0, 1} :
         /\ calls' = Append(calls, [argv |-> BranchArgv, rc |-> rc])
         /\ IF rc # 0 THEN ProcessFailed(BranchArgv)
            ELSE IF ~OnPrimaryBranch(git_branch)
            THEN /\ exc' = "WrongBranch"
                 /\ exit' = 1
                 /\ stderr' = Append(stderr, WrongBranchLine(git_branch))
                 /\ pc' = "done"
            ELSE pc' = "check_status" /\ UNCHANGED <<exit, exc, stderr>>
    /\ UNCHANGED <<args, env, bumpLocals, loginLocals, disk, steps, stdout,
                   version_badge, home>>

\* check_command: the status query and the test for uncommitted files
CheckStatus ==
    /\ pc = "check_status" /\ exit = Running
    /\ \E rc \in {0, 1} :
         /\ calls' = Append(calls, [argv |-> StatusArgv, rc |-> rc])
         /\ IF rc # 0 THEN ProcessFailed(StatusArgv) /\ UNCHANGED stdout
            ELSE IF HasUncommitted(git_status)
            THEN /\ exc' = "DirtyWorkingTree"
                 /\ exit' = 1
                 /\ stderr' = Append(stderr, DirtyLine)
                 /\ pc' = "done"
                 /\ UNCHANGED stdout
            ELSE /\ stdout' = Append(stdout, <<"All checks passed successfully!">>)
                 /\ UNCHANGED stderr
                 /\ IF cmd = "check" THEN Succeeded
                    ELSE pc' = "run_tests" /\ UNCHANGED <<exit, exc>>
    /\ UNCHANGED <<args, env, bumpLocals, loginLocals, disk, steps, version_badge, home>>

\* release_command: the else branch of `if not skip_tests`
ReleaseSkipTests ==
    /\ cmd = "release" /\ pc = "run_tests" /\ exit = Running /\ skip_tests
    /\ stdout' = Append(stdout, <<"Tests skipped as requested.">>)
    /\ pc' = "bump"
    /\ UNCHANGED <<args, env, bumpLocals, loginLocals, disk, calls, steps, stderr,
                   exit, exc, version_badge, home>>

PytestArgv == <<"uv", "run", "pytest", "--cov=src">>

\* run_tests(), from `test` and from `release` without --skip-tests
RunTests ==
    /\ pc = "run_tests" /\ exit = Running
    /\ cmd = "test" \/ (cmd = "release" /\ ~skip_tests)
    /\ steps' = Append(steps, "run_tests")
    /\ stdout' = IF cmd = "release" THEN Append(stdout, <<"Running tests...">>) ELSE stdout
    /\ \E rc \in {0, 1} :
         /\ calls' = Append(calls, [argv |-> PytestArgv, rc |-> rc])
         /\ IF rc # 0 THEN ProcessFailed(PytestArgv)
            ELSE /\ UNCHANGED stderr
                 /\ IF cmd = "test" THEN Succeeded
                    ELSE pc' = "coverage_html" /\ UNCHANGED <<exit, exc>>
    /\ UNCHANGED <<args, env, bumpLocals, loginLocals, disk, version_badge, home>>

CoverageHtmlArgv == <<"uv", "run", "coverage", "html">>
CoverageXmlArgv == <<"uv", "run", "coverage", "xml">>
GenbadgeArgv == <<"genbadge", "coverage", "-i", "coverage.xml", "-o",
                  "reports/coverage-badge.svg">>

\* generate_coverage_badge(): coverage html
CoverageHtml ==
    /\ pc = "coverage_html" /\ exit = Running
    /\ steps' = Append(steps, "generate_coverage_badge")
    /\ \E rc \in {0, 1} :
         /\ calls' = Append(calls, [argv |-> CoverageHtmlArgv, rc |-> rc])
         /\ IF rc # 0 THEN ProcessFailed(CoverageHtmlArgv)
            ELSE pc' = "coverage_xml" /\ UNCHANGED <<exit, exc, stderr>>
    /\ UNCHANGED <<args, env, bumpLocals, loginLocals, disk, stdout, version_badge, home>>

\* generate_coverage_badge(): coverage xml
CoverageXml ==
    /\ pc = "coverage_xml" /\ exit = Running
    /\ \E rc \in {0, 1} :
         /\ calls' = Append(calls, [argv |-> CoverageXmlArgv, rc |-> rc])
         /\ IF rc # 0 THEN ProcessFailed(CoverageXmlArgv)
            ELSE pc' = "genbadge" /\ UNCHANGED <<exit, exc, stderr>>
    /\ UNCHANGED <<args, env, bumpLocals, loginLocals, disk, steps, stdout,
                   version_badge, home>>

\* generate_coverage_badge(): genbadge coverage
CoverageGenbadge ==
    /\ pc = "genbadge" /\ exit = Running
    /\ \E rc \in {0, 1} :
         /\ calls' = Append(calls, [argv |-> GenbadgeArgv, rc |-> rc])
         /\ IF rc # 0 THEN ProcessFailed(GenbadgeArgv)
            ELSE /\ pc' = IF cmd = "release" THEN "bump" ELSE "version_badge"
                 /\ UNCHANGED <<exit, exc, stderr>>
    /\ UNCHANGED <<args, env, bumpLocals, loginLocals, disk, steps, stdout,
                   version_badge, home>>

\* generate_badges: generate_version_badge() after the coverage badge
GenerateVersionBadge ==
    /\ cmd = "generate-badges" /\ pc = "version_badge" /\ exit = Running
    /\ steps' = Append(steps, "generate_version_badge")
    /\ \E vb \in {generate_version_badge(disk)} :
          /\ version_badge' = vb.badge
          /\ IF vb.exc # "none" THEN Uncaught(vb.exc)
             ELSE Succeeded /\ UNCHANGED stderr
    /\ UNCHANGED <<args, env, bumpLocals, loginLocals, disk, calls, stdout, home>>

\* release_command from bump(part) to its end: bump, and when bump returns,
\* the version badge and the try block (lock, build, add, commit, tag, push)
ReleaseBump ==
    /\ cmd = "release" /\ pc = "bump" /\ exit = Running
    /\ \E fixer_rc \in {0, 1}, k \in 0..Len(TailSteps) :
         \E r \in {bump(disk, part, fixer_rc)} :
            /\ disk' = r.disk
            /\ pyproject' = r.pyproject
            /\ version' = r.version
            /\ IF r.exc # "none"
               THEN /\ Uncaught(r.exc)
                    /\ steps' = Append(steps, "bump")
                    /\ calls' = calls \o r.calls
                    /\ stdout' = stdout \o r.out
                    /\ UNCHANGED version_badge
               ELSE \E t \in {ReleaseTail(r.disk, k)} :
                       /\ exc' = t.exc
                       /\ exit' = t.exit
                       /\ pc' = "done"
                       /\ steps' = Append(steps, "bump") \o t.steps
                       /\ calls' = calls \o r.calls \o t.calls
                       /\ stdout' = stdout \o r.out \o t.out
                       /\ stderr' = stderr \o t.err
                       /\ version_badge' = t.badge
    /\ UNCHANGED <<args, env, loginLocals, home>>

\* login_command: the index name (fixed by --default, else prompted) and its
\* normalization
LoginIndex ==
    /\ cmd = "login" /\ pc = "login_index" /\ exit = Running
    /\ steps' = Append(steps, "login_command")
    /\ IF use_default
       THEN /\ package_index' = Default
            /\ stdout' = Append(stdout, <<"Using 'default' as the package index name">>)
       ELSE /\ package_index' \in IndexNames
            /\ UNCHANGED stdout
    /\ normalized_index' = Normalize(package_index')
    /\ pc' = "login_credentials"
    /\ UNCHANGED <<args, env, bumpLocals, disk, calls, stderr, exit, exc, version_badge,
                   home, username, password>>

\* login_command: the Username and Password prompts
LoginCredentials ==
    /\ pc = "login_credentials" /\ exit = Running
    /\ username' \in Usernames
    /\ password' \in Passwords
    /\ pc' = "login_persist"
    /\ UNCHANGED <<args, env, bumpLocals, disk, calls, steps, stdout, stderr, exit, exc,
                   version_badge, home, package_index, normalized_index>>

SavedLine(norm) ==
    <<"Credentials saved as ">> \o UsernameVar(norm) \o <<" and ">> \o PasswordVar(norm)
AlsoSavedLine == <<"Also saved as UV_PUBLISH_USERNAME and UV_PUBLISH_PASSWORD">>

\* login_command on Windows: setx for each variable; k of them exit zero
LoginWindows ==
    /\ pc = "login_persist" /\ exit = Running /\ system = "Windows"
    /\ \E dflt \in {SetDefaultVars(use_default, package_index)} :
       \E argv \in {SetxArgv(normalized_index, username, password, dflt)} :
       \E k \in 0..Len(argv) :
            \E n \in {IF k < Len(argv) THEN k + 1 ELSE Len(argv)} :
               /\ calls' = calls \o [i \in 1..n |->
                                        [argv |-> argv[i], rc |-> IF i <= k THEN 0 ELSE 1]]
               /\ IF k < Len(argv)
                  THEN ProcessFailed(argv[k + 1]) /\ UNCHANGED stdout
                  ELSE /\ stdout' = stdout \o <<SavedLine(normalized_index)>>
                                    \o (IF dflt THEN <<AlsoSavedLine>> ELSE <<>>)
                                    \o <<<<"Note: You may need to restart your terminal for the changes to take effect.">>>>
                       /\ Succeeded
                       /\ UNCHANGED stderr
    /\ UNCHANGED <<args, env, bumpLocals, loginLocals, disk, steps, version_badge, home>>

\* login_command elsewhere: back the startup file up (best effort), then
\* append the export lines to it
LoginUnix ==
    /\ pc = "login_persist" /\ exit = Running /\ system # "Windows"
    /\ \E dflt \in {SetDefaultVars(use_default, package_index)},
          cf \in {ConfigFile(shell, home)} :
       \E bak \in {BackupFile(cf)}, cp_rc \in {0, 1}, opened \in BOOLEAN :
            /\ cp_rc = 0 => Has(home, cf)
            /\ calls' = Append(calls, [argv |-> <<"cp", cf, bak>>, rc |-> cp_rc])
            /\ \E copied \in {IF cp_rc = 0 THEN Put(home, bak, Get(home, cf)) ELSE home},
                  note \in {IF cp_rc = 0 THEN <<"Backup created at ", bak>>
                            ELSE <<"Warning: Could not create backup file.">>} :
                  IF ~opened
                  THEN /\ home' = copied
                       /\ stdout' = Append(stdout, note)
                       /\ exc' = "OSError"
                       /\ exit' = 1
                       /\ stderr' = Append(stderr, <<"Unexpected error: ", "OSError">>)
                       /\ pc' = "done"
                  ELSE /\ home' = AppendTo(copied, cf,
                                           LoginChunks(package_index, normalized_index,
                                                       username, password, dflt))
                       /\ stdout' = stdout \o <<note>>
                                    \o <<<<"Credentials saved to ", cf, " as ">>
                                         \o UsernameVar(normalized_index) \o <<" and ">>
                                         \o PasswordVar(normalized_index)>>
                                    \o (IF dflt THEN <<AlsoSavedLine>> ELSE <<>>)
                                    \o <<<<"Run 'source ", cf,
                                           "' to apply changes to current terminal session.">>>>
                       /\ Succeeded
                       /\ UNCHANGED stderr
    /\ UNCHANGED <<args, env, bumpLocals, loginLocals, disk, steps, version_badge>>

Next ==
    \/ VersionCallback
    \/ BumpCommand
    \/ CheckInstall
    \/ CheckBranch
    \/ CheckStatus
    \/ ReleaseSkipTests
    \/ RunTests
    \/ CoverageHtml
    \/ CoverageXml
    \/ CoverageGenbadge
    \/ GenerateVersionBadge
    \/ ReleaseBump
    \/ LoginIndex
    \/ LoginCredentials
    \/ LoginWindows
    \/ LoginUnix

Spec == Init /\ [][Next]_vars

-----------------------------------------------------------------------------
(* Properties *)

Last(q) == q[Len(q)]
IsPrefix(a, b) == Len(a) <= Len(b) /\ SubSeq(b, 1, Len(a)) = a
Ran(step) == step \in Range(steps)
Invoked(argv) == \E i \in 1..Len(calls) : calls[i].argv = argv
V123 == <<"1", ".", "2", ".", "3">>

\* component values the version properties range over
CompValues == (0..MaxComp) \cup {9, 10, 99}

\* the cascade table of the bump rules
Expected(a, b, c, rule) ==
    IF rule = "major" THEN FormatVersion(a + 1, 0, 0)
    ELSE IF rule = "minor" THEN FormatVersion(a, b + 1, 0)
    ELSE FormatVersion(a, b, c + 1)

\* C1: for every version a.b.c of non-negative integers read from the file,
\* the version string bump(rule) computes is a.b.(c+1) for patch, a.(b+1).0
\* for minor and (a+1).0.0 for major; leading zeros of a component are read
\* as the same integer.
C1_BumpComputes ==
    (Ran("bump") /\ version # <<>>) =>
        /\ \A a \in CompValues, b \in CompValues, c \in CompValues :
              version = FormatVersion(a, b, c) =>
                  /\ Has(pyproject, VersionKey)
                  /\ Get(pyproject, VersionKey) = Expected(a, b, c, part)
        /\ version = <<"0", "1", ".", "2", ".", "0", "3">> =>
              Get(pyproject, VersionKey) = Expected(1, 2, 3, part)

\* C1 witness: bump minor has run on 1.2.3 and computed 1.3.0
C1_Witness ==
    /\ Ran("bump") /\ part = "minor" /\ version = V123
    /\ Get(pyproject, VersionKey) = <<"1", ".", "3", ".", "0">>

\* C2: once `version bump <rule>` has ended on a file holding a valid version,
\* the file on disk holds the bumped version, the command has printed
\* `Version bumped to <new version>` and exited 0.
C2_BumpWritesFile ==
    (cmd = "version bump" /\ pc = "done") =>
        \A a \in CompValues, b \in CompValues, c \in CompValues :
            version = FormatVersion(a, b, c) =>
                /\ get_version(disk).val = Expected(a, b, c, part)
                /\ <<"Version bumped to ">> \o Expected(a, b, c, part) \in Range(stdout)
                /\ exit = 0

\* C3: no step changes a key of the configuration file other than the version
\* field: what a reload gives for every other key after the step is what it
\* gave before, and the document bump holds in memory differs from the file
\* it loaded at the version field only.
C3_OtherKeysKept ==
    [][ /\ disk'.exists = disk.exists
        /\ OtherKeys(disk'.doc) = OtherKeys(disk.doc)
        /\ (Ran("bump")' /\ disk.exists) => OtherKeys(pyproject') = OtherKeys(disk.doc) ]_vars

\* C3 witness: bump has run on a file with further keys, computed a new
\* version, and the further keys are still in the file
C3_Witness ==
    /\ Ran("bump") /\ version = V123
    /\ Get(pyproject, VersionKey) # version
    /\ Has(disk.doc, "tool.ruff.line-length")
    /\ Get(disk.doc, "tool.ruff.line-length") = <<"1", "0", "0">>

OnMain == git_branch = <<"m", "a", "i", "n", "\n">>
Clean == git_status = <<>>
AllCallsSucceeded == \A i \in 1..Len(calls) : calls[i].rc = 0
CheckArgvOrder == <<InstallArgv, BranchArgv, StatusArgv>>

\* what the claim says of a finished `check`, the external commands aside
CheckOutcome ==
    /\ exit = 0 <=> (OnMain /\ Clean)
    /\ ~OnMain => /\ exit = 1
                  /\ Len(stderr) = 1
                  /\ stderr[1][1] = "Error: "
                  /\ stderr[1][2] = "You must be on the main branch to release. Current branch: "
                  /\ ~Invoked(StatusArgv)
    /\ (OnMain /\ ~Clean) =>
                  /\ exit = 1
                  /\ stderr = << <<"Error: ", "There are uncommitted changes. Please commit all changes before continuing.">> >>

\* C4 as stated: `check` exits 0 exactly when the branch is main and the tree
\* is clean; on another branch it exits 1 with the branch-mismatch error and
\* never queries the status; on main with uncommitted paths it exits 1 with
\* the uncommitted-changes error.
C4_CheckOutcome ==
    (cmd = "check" /\ pc = "done") => CheckOutcome

\* C4 amended: the same, when the hook installation and the git queries
\* themselves exit zero; when one of them exits non-zero, check exits 1 with
\* `Error: <process error>` whatever the branch and the tree.  The processes
\* run in the order install, branch query, status query.
C4_CheckOutcomeAmended ==
    (cmd = "check" /\ pc = "done") =>
        /\ IsPrefix([i \in 1..Len(calls) |-> calls[i].argv], CheckArgvOrder)
        /\ AllCallsSucceeded => CheckOutcome
        /\ ~AllCallsSucceeded =>
              /\ exit = 1
              /\ Len(stderr) = 1
              /\ stderr[1][1] = "Error: "
              /\ Last(calls).rc # 0
        /\ ~OnMain => ~Invoked(StatusArgv)

\* C4 witness: on feature-x with uncommitted changes, check has ended with the
\* branch error only, after two processes
C4_Witness ==
    /\ cmd = "check" /\ pc = "done" /\ exit = 1
    /\ git_branch = <<"f", "e", "a", "t", "u", "r", "e", "-", "x", "\n">>
    /\ git_status # <<>>
    /\ Len(calls) = 2 /\ AllCallsSucceeded
    /\ stderr = << <<"Error: ", "You must be on the main branch to release. Current branch: ",
                     "f", "e", "a", "t", "u", "r", "e", "-", "x">> >>

\* the file holds a version of three integers
ValidConfig == disk.exists /\ Has(disk.doc, VersionKey)
               /\ Len(Split(Get(disk.doc, VersionKey), ".")) = 3
               /\ \A i \in 1..3 : ParseInt(Split(Get(disk.doc, VersionKey), ".")[i]).ok
\* a run in which nothing outside the program fails
NothingFails == AllCallsSucceeded /\ OnMain /\ Clean /\ ValidConfig

ReleaseOrder(skip) ==
    <<"check_command">>
    \o (IF skip THEN <<>> ELSE <<"run_tests", "generate_coverage_badge">>)
    \o <<"bump", "generate_version_badge", "uv lock", "uv build", "git add",
         "git commit", "git tag", "git push">>

\* C5: a finished `release` run in which no step fails has performed exactly
\* Check, (Test, CoverageBadge unless skipped), Bump, VersionBadge, lock,
\* build, git add, git commit, git tag, git push in that order and exits 0;
\* a run that exits 1 has performed a prefix of that order.
C5_ReleaseOrder ==
    (cmd = "release" /\ pc = "done") =>
        /\ NothingFails => (steps = ReleaseOrder(skip_tests) /\ exit = 0)
        /\ exit = 1 => IsPrefix(steps, ReleaseOrder(skip_tests))

\* C6: a `release --skip-tests` run never invokes the test runner or the
\* coverage badge generator, and, when Check passes and no step fails, still
\* performs Bump, the version badge, lock, build and git add/commit/tag/push.
C6_SkipTests ==
    (cmd = "release" /\ skip_tests) =>
        /\ ~Ran("run_tests") /\ ~Ran("generate_coverage_badge")
        /\ ~Invoked(PytestArgv) /\ ~Invoked(GenbadgeArgv)
        /\ (pc = "done" /\ NothingFails) =>
              \A st \in {"bump", "generate_version_badge", "uv lock", "uv build",
                         "git add", "git commit", "git tag", "git push"} : Ran(st)

\* the startup file login appended to, and the chunks it holds at its end
EndsWith(q, tail) == Len(tail) <= Len(q) /\ SubSeq(q, Len(q) - Len(tail) + 1, Len(q)) = tail
Written(chunk) == \E f \in home : chunk \in Range(f[2])
SameIgnoringCase(x, y) == ToUpper(x) = ToUpper(y)
IsDefaultIndex == use_default \/ SameIgnoringCase(package_index, Pypi)
                  \/ SameIgnoringCase(package_index, Default)
IndexExports ==
    << <<"export ", "UV_INDEX_">> \o normalized_index \o <<"_USERNAME", "='">>
          \o username \o <<"'", "\n">>,
       <<"export ", "UV_INDEX_">> \o normalized_index \o <<"_PASSWORD", "='">>
          \o password \o <<"'", "\n">> >>
PublishExports ==
    << <<"export ", "UV_PUBLISH_USERNAME", "='">> \o username \o <<"'", "\n">>,
       <<"export ", "UV_PUBLISH_PASSWORD", "='">> \o password \o <<"'", "\n">> >>

\* C7: a login that succeeds off Windows has appended to the startup file the
\* exports of UV_INDEX_<NORMALIZED>_USERNAME and _PASSWORD with the typed
\* values; the UV_PUBLISH_USERNAME / UV_PUBLISH_PASSWORD exports follow them
\* exactly when --default was given or the typed name is pypi or default in
\* any letter case, and are written nowhere otherwise.  With --default, alice
\* and secret the four export lines are those of the scenario.
C7_LoginExports ==
    (cmd = "login" /\ pc = "done" /\ exit = 0 /\ system # "Windows") =>
        /\ \E f \in home :
              IF IsDefaultIndex
              THEN /\ Len(f[2]) >= 6
                   /\ SubSeq(f[2], Len(f[2]) - 4, Len(f[2]) - 3) = IndexExports
                   /\ EndsWith(f[2], PublishExports)
              ELSE EndsWith(f[2], IndexExports)
        /\ ~IsDefaultIndex => \A i \in 1..2 : ~Written(PublishExports[i])
        /\ (use_default /\ username = <<"alice">> /\ password = <<"secret">>) =>
              /\ Written(<<"export ", "UV_INDEX_", "D", "E", "F", "A", "U", "L", "T",
                           "_USERNAME", "='", "alice", "'", "\n">>)
              /\ Written(<<"export ", "UV_INDEX_", "D", "E", "F", "A", "U", "L", "T",
                           "_PASSWORD", "='", "secret", "'", "\n">>)
              /\ Written(<<"export ", "UV_PUBLISH_USERNAME", "='", "alice", "'", "\n">>)
              /\ Written(<<"export ", "UV_PUBLISH_PASSWORD", "='", "secret", "'", "\n">>)

\* C7 witness: the index PyPI was typed without --default, and the publish
\* pair was written after the index pair
C7_Witness ==
    /\ cmd = "login" /\ pc = "done" /\ exit = 0 /\ system # "Windows" /\ ~use_default
    /\ package_index = <<"P", "y", "P", "I">>
    /\ username = <<"alice">> /\ password = <<"secret">>
    /\ Written(<<"export ", "UV_INDEX_", "P", "Y", "P", "I", "_USERNAME", "='", "alice",
                 "'", "\n">>)
    /\ Written(<<"export ", "UV_PUBLISH_PASSWORD", "='", "secret", "'", "\n">>)

NormalizedChars == Range(UpperLetters) \cup Range(Digits) \cup {"_"}

\* C8: normalizing an index name is idempotent, its result holds only
\* characters of [A-Z0-9_], and "my company!" normalizes to MY_COMPANY_.
C8_NormalizeIdempotent ==
    (cmd = "login" /\ pc # "login_index") =>
        /\ Normalize(normalized_index) = normalized_index
        /\ Range(normalized_index) \subseteq NormalizedChars
        /\ package_index = <<"m", "y", " ", "c", "o", "m", "p", "a", "n", "y", "!">> =>
              normalized_index = <<"M", "Y", "_", "C", "O", "M", "P", "A", "N", "Y", "_">>

\* C8 witness: "my company!" was typed and normalized to MY_COMPANY_
C8_Witness ==
    /\ package_index = <<"m", "y", " ", "c", "o", "m", "p", "a", "n", "y", "!">>
    /\ normalized_index = <<"M", "Y", "_", "C", "O", "M", "P", "A", "N", "Y", "_">>

ToleratedCall(c) == c.argv[1] = "cp" \/ c.argv = FixerArgv
HandledFailures == {"CalledProcessError", "WrongBranch", "DirtyWorkingTree"}
UncaughtFailures == {"FileNotFoundError", "KeyError", "ValueError", "UnsupportedOperation"}

\* C9 as stated: every command that ends in a failure has printed an
\* `Error: <detail>` line last and exits with status 1.
C9_ErrorLine ==
    (pc = "done" /\ exc # "none") =>
        /\ exit = 1
        /\ stderr # <<>>
        /\ Last(stderr)[1] = "Error: "

\* C9 amended: every fatal failure ends the command with exit status 1, and a
\* command that ends without one exits 0.  A non-zero exit of an external
\* command other than the two tolerated ones, a wrong branch and a dirty
\* working tree print an `Error: <detail>` line last.  An unexpected exception
\* inside login prints `Unexpected error: <detail>`.  A missing configuration
\* file, a missing version field, an unparsable version string and the
\* refused rewrite of the configuration file in bump are caught by no handler:
\* the command ends with the traceback and prints no `Error:` line.
C9_FailureReport ==
    /\ pc = "done" => (exit \in {0, 1} /\ (exit = 1 <=> exc # "none"))
    /\ pc # "done" => (exit = Running /\ exc = "none")
    /\ (\E i \in 1..Len(calls) : calls[i].rc # 0 /\ ~ToleratedCall(calls[i])) =>
          (exit = 1 /\ exc = "CalledProcessError")
    /\ exc \in HandledFailures => (stderr # <<>> /\ Last(stderr)[1] = "Error: ")
    /\ exc = "OSError" => (cmd = "login" /\ Last(stderr)[1] = "Unexpected error: ")
    /\ exc \in UncaughtFailures =>
          /\ Last(stderr)[1] = "Traceback (most recent call last):"
          /\ \A i \in 1..Len(stderr) : stderr[i][1] # "Error: "
    /\ exc \in HandledFailures \cup UncaughtFailures \cup {"OSError", "none"}

\* C9 witness: a command ended by an exception no handler catches
C9_Witness ==
    /\ pc = "done" /\ exit = 1 /\ exc = "KeyError"
    /\ stderr = <<<<"Traceback (most recent call last):", "KeyError">>>>

====
